---- MODULE Spec2Model ----
(***************************************************************************)
(* A model of AppController (demo/client/src/app-controller.ts): the       *)
(* start-up sequence, the view promise, the antialiasing selector, the     *)
(* preset selector with its "Custom" placeholder, and the file loads.      *)
(*                                                                         *)
(* JavaScript runs each handler to completion, so every handler is one     *)
(* action.  Promise settlements, network responses and FileReader events   *)
(* are separate actions that interleave freely between handlers.           *)
(***************************************************************************)
EXTENDS Integers, Sequences, FiniteSets, TLC

(***************************************************************************)
(* Bounds of the model.                                                    *)
(***************************************************************************)
\* longest antialiasing option value drawn for the markup
MaxStrLen == 3
\* antialiasing change events in one run
MaxAAChanges == 1
\* file loads (fetches and local reads) initiated in one run
MaxLoads == 2
\* preset-selector events in one run
MaxSelectEvents == 3
\* clicks on the two settings buttons in one run
MaxClicks == 3

(***************************************************************************)
(* Characters and strings.  An option value is a sequence of characters.   *)
(***************************************************************************)
LowerChars == {"a", "c", "e", "n", "o"}
DigitChars == {"0", "4"}
NameChars == LowerChars \cup {"-"}
\* the characters the markup's free option value is drawn from:
\* a letter, the hyphen, two digits, and a character outside every class
Alphabet == {"a", "-", "0", "4", "A"}
Strings == UNION {[1..n -> Alphabet] : n \in 0..MaxStrLen}

\* the demo's own option values, "none" and "ecaa-4"
SampleAAOptions == {<<"n", "o", "n", "e">>, <<"e", "c", "a", "a", "-", "4">>}

(***************************************************************************)
(* JavaScript values.                                                      *)
(***************************************************************************)
\* a number that is an integer
Int1(n) == [nan |-> FALSE, val |-> n]
\* the number NaN
NaN == [nan |-> TRUE, val |-> 0]

DigitVal(c) == IF c = "4" THEN 4 ELSE 0

\* parseInt(x): x is a capture group, [set |-> FALSE] standing for undefined.
\* undefined converts to the string "undefined", which starts with no digit.
RECURSIVE ParseDigits(_, _, _)
ParseDigits(s, i, acc) ==
    IF i > Len(s) \/ s[i] \notin DigitChars THEN acc
    ELSE ParseDigits(s, i + 1, acc * 10 + DigitVal(s[i]))

ParseInt(x) ==
    IF ~x.set \/ x.str = <<>> \/ x.str[1] \notin DigitChars THEN NaN
    ELSE Int1(ParseDigits(x.str, 1, 0))

(***************************************************************************)
(* /^([a-z-]+)(?:-([0-9]+))?$/.exec(value), as a backtracking matcher.     *)
(***************************************************************************)
NoMatch == [matched |-> FALSE, g1 |-> <<>>, g2 |-> [set |-> FALSE, str |-> <<>>]]

\* the longest run of characters of class cls that starts at position from
RECURSIVE RunLength(_, _, _)
RunLength(s, from, cls) ==
    IF from > Len(s) \/ s[from] \notin cls THEN 0
    ELSE 1 + RunLength(s, from + 1, cls)

\* $ at position pos
AtEnd(s, pos) == pos = Len(s) + 1

\* group 1 is s[1..k] and the hyphen is s[k+1]: [0-9]+ takes d digits, the
\* longest run first, and gives one back each time $ fails
RECURSIVE TryDigits(_, _, _)
TryDigits(s, k, d) ==
    IF d = 0 THEN NoMatch
    ELSE IF AtEnd(s, k + 2 + d)
         THEN [matched |-> TRUE, g1 |-> SubSeq(s, 1, k),
               g2 |-> [set |-> TRUE, str |-> SubSeq(s, k + 2, k + 1 + d)]]
         ELSE TryDigits(s, k, d - 1)

\* what follows group 1 = s[1..k]: the optional group is tried first (? is
\* greedy), then the empty alternative, each followed by $
TryTail(s, k) ==
    LET withGroup == IF k + 1 <= Len(s) /\ s[k + 1] = "-"
                     THEN TryDigits(s, k, RunLength(s, k + 2, DigitChars))
                     ELSE NoMatch
    IN  IF withGroup.matched THEN withGroup
        ELSE IF AtEnd(s, k + 1)
             THEN [matched |-> TRUE, g1 |-> SubSeq(s, 1, k),
                   g2 |-> [set |-> FALSE, str |-> <<>>]]
             ELSE NoMatch

\* [a-z-]+ takes k characters, the longest run first, and gives one back each
\* time the rest of the pattern fails
RECURSIVE TryName(_, _)
TryName(s, k) ==
    IF k = 0 THEN NoMatch
    ELSE LET r == TryTail(s, k)
         IN  IF r.matched THEN r ELSE TryName(s, k - 1)

\* a matcher that never gives a character back
AAPatternExecPossessive(s) == TryTail(s, RunLength(s, 1, NameChars))

\* a matcher without the closing $
AAPatternExecUnanchored(s) ==
    LET k == RunLength(s, 1, NameChars)
    IN  IF k = 0 THEN NoMatch
        ELSE [matched |-> TRUE, g1 |-> SubSeq(s, 1, k),
              g2 |-> [set |-> FALSE, str |-> <<>>]]

AAPatternExec(s) == TryName(s, RunLength(s, 1, NameChars))

\* exec returned null: unwrapNull(null) throws (and were null to pass it,
\* aaValues[1] on the next line would throw all the same)
MatchIsNull(m) == ~m.matched

\* aaValues[2] === "" ? 1 : parseInt(aaValues[2])
AALevelOf(m) ==
    IF m.g2.set /\ m.g2.str = <<>> THEN Int1(1) ELSE ParseInt(m.g2)

\* the body of updateAALevel up to the registration of the view callback
ParseAAOption(value) ==
    LET m == AAPatternExec(value)
    IN  IF MatchIsNull(m)
        THEN [threw |-> TRUE, type |-> <<>>, level |-> NaN, from |-> value]
        ELSE [threw |-> FALSE, type |-> m.g1, level |-> AALevelOf(m), from |-> value]

(***************************************************************************)
(* The state.                                                              *)
(***************************************************************************)
VARIABLES
    doc,               \* the ids of the elements the host markup holds
    pc,                \* start(): "init", then "done" or "threw"
    listeners,         \* the listeners start() has registered
    filePickerElement, \* this.filePickerElement: "unset", "null" or "element"
    settingsClasses,   \* the classes of the settings panel
    clickLog,          \* the clicks on the settings buttons, in order
    aaOptions,         \* the option values of the antialiasing select
    aaSelected,        \* its selectedIndex
    aaChanges,         \* change events so far
    aaSelections,      \* the option values updateAALevel has read, in order
    common,            \* shaderLoader.common, a promise
    shaders,           \* shaderLoader.shaders, a promise
    view,              \* this.view, a promise
    viewSets,          \* assignments to this.view so far
    createLog,         \* the calls of createView, with what each returned
    aaQueue,           \* callbacks registered by this.view.then, oldest first
    aaCalls,           \* the calls of view.setAntialiasingOptions, in order
    lastAA,            \* the outcome of the latest updateAALevel
    fileOptions,       \* the options of the preset select
    fileSelected,      \* its selectedIndex
    selectEvents,      \* preset-selector events so far
    lastSelect,        \* the latest preset-selector event
    loads,             \* the file loads initiated, in order of initiation
    fileData,          \* this.fileData
    fileLoadedLog,     \* the calls of fileLoaded(), with fileData at the call
    lastLoadFile       \* the outcome of the latest loadFile

domVars == <<doc, pc, listeners, filePickerElement, settingsClasses, clickLog>>
aaVars == <<aaOptions, aaSelected, aaChanges, aaSelections, aaQueue, aaCalls,
           lastAA>>
viewVars == <<common, shaders, view, viewSets, createLog>>
selectVars == <<fileOptions, fileSelected, selectEvents, lastSelect>>
loadVars == <<loads, fileData, fileLoadedLog, lastLoadFile>>
vars == <<domVars, aaVars, viewVars, selectVars, loadVars>>

RequiredIds == {"pf-canvas", "pf-settings", "pf-settings-button",
                "pf-settings-close-button", "pf-aa-level-select"}
OptionalIds == {"pf-file-select", "pf-select-file"}

\* what the shader loader's promises resolve to
CommonValues == {"common-a", "common-b"}
ShaderValues == {"shaders-a", "shaders-b"}

Pending == [st |-> "pending", val |-> "none"]
Unset == [st |-> "unset", val |-> "none"]
\* the view promise; its value is the view, numbered by its creation
UnsetView == [st |-> "unset", val |-> 0]
PendingView == [st |-> "pending", val |-> 0]
RejectedView == [st |-> "rejected", val |-> 0]

\* the preset names of the markup and the option that asks for a local file
PresetNames == <<"preset-a", "preset-b">>
PlaceholderId == "pf-custom-option-placeholder"
\* an option without a value attribute has its text as its value
Placeholder == [value |-> "Custom", id |-> PlaceholderId]
LoadCustom == [value |-> "load-custom", id |-> ""]
PresetOption(name) == [value |-> name, id |-> ""]

NoAA == [ran |-> FALSE, threw |-> FALSE, type |-> <<>>, level |-> NaN, from |-> <<>>]
NoSelect == [ran |-> FALSE, index |-> 0, value |-> "", before |-> <<>>,
             opened |-> FALSE, fetched |-> FALSE]
NoLoadFile == [ran |-> FALSE, files |-> "null", error |-> "", started |-> FALSE]
NoData == [kind |-> "unset", of |-> 0]

(***************************************************************************)
(* start()                                                                 *)
(***************************************************************************)
\* updateAALevel(): the selected option is parsed and, unless that throws,
\* a callback is registered on the view promise
UpdateAALevel(queue) ==
    LET r == ParseAAOption(aaOptions[aaSelected' + 1])
    IN  /\ lastAA' = r @@ [ran |-> TRUE]
        /\ aaSelections' = Append(aaSelections, r.from)
        /\ aaQueue' = IF r.threw THEN queue
                      ELSE Append(queue, [type |-> r.type, level |-> r.level,
                                          from |-> r.from])

\* the optional elements taken for required ones: addEventListener is
\* called on them without the null test of lines 34 and 42
StartThrowsAtOptional ==
    IF "pf-settings-button" \notin doc THEN "settingsButton"
    ELSE IF "pf-settings-close-button" \notin doc THEN "settingsCloseButton"
    ELSE IF "pf-file-select" \notin doc THEN "filePicker"
    ELSE IF "pf-select-file" \notin doc THEN "selectFile"
    ELSE IF "pf-aa-level-select" \notin doc THEN "aaLevelSelect"
    ELSE IF ParseAAOption(aaOptions[aaSelected + 1]).threw THEN "updateAALevel"
    ELSE "end"

\* the statement at which start() throws, or "end"
\* (addEventListener on an element that getElementById did not find)
StartThrowsAt ==
    IF "pf-settings-button" \notin doc THEN "settingsButton"
    ELSE IF "pf-settings-close-button" \notin doc THEN "settingsCloseButton"
    ELSE IF "pf-aa-level-select" \notin doc THEN "aaLevelSelect"
    ELSE IF ParseAAOption(aaOptions[aaSelected + 1]).threw THEN "updateAALevel"
    ELSE "end"

Start ==
    /\ pc = "init"
    /\ LET at == StartThrowsAt
           \* lines 33-54 are reached
           mid == at \notin {"settingsButton", "settingsCloseButton"}
           \* lines 57-58 are reached
           late == at \in {"updateAALevel", "end"}
       IN  /\ pc' = IF at = "end" THEN "done" ELSE "threw"
           /\ listeners' =
                  (IF at # "settingsButton" THEN {"settingsButton.click"} ELSE {})
                  \cup (IF mid THEN {"settingsCloseButton.click"} ELSE {})
                  \cup (IF mid /\ "pf-file-select" \in doc
                        THEN {"filePicker.change"} ELSE {})
                  \cup (IF mid /\ "pf-select-file" \in doc
                        THEN {"selectFile.click"} ELSE {})
                  \cup (IF late THEN {"aaLevelSelect.change"} ELSE {})
           /\ filePickerElement' =
                  IF ~mid THEN "unset"
                  ELSE IF "pf-file-select" \in doc THEN "element" ELSE "null"
           /\ common' = IF mid THEN Pending ELSE common
           /\ shaders' = IF mid THEN Pending ELSE shaders
           /\ view' = IF mid THEN PendingView ELSE view
           /\ viewSets' = IF mid THEN viewSets + 1 ELSE viewSets
           /\ aaSelected' = aaSelected
           /\ IF late THEN UpdateAALevel(aaQueue)
              ELSE UNCHANGED <<aaQueue, lastAA, aaSelections>>
    /\ UNCHANGED <<doc, settingsClasses, clickLog, aaOptions, aaChanges,
                   createLog, aaCalls>>
    /\ UNCHANGED <<selectVars, loadVars>>

(***************************************************************************)
(* The shader loader's two promises settle, in any order.                  *)
(***************************************************************************)
ResolveCommon(v) ==
    /\ common.st = "pending"
    /\ common' = [st |-> "fulfilled", val |-> v]
    /\ UNCHANGED <<domVars, aaVars, shaders, view, viewSets, createLog,
                   selectVars, loadVars>>

RejectCommon ==
    /\ common.st = "pending"
    /\ common' = [st |-> "rejected", val |-> "none"]
    /\ UNCHANGED <<domVars, aaVars, shaders, view, viewSets, createLog,
                   selectVars, loadVars>>

ResolveShaders(v) ==
    /\ shaders.st = "pending"
    /\ shaders' = [st |-> "fulfilled", val |-> v]
    /\ UNCHANGED <<domVars, aaVars, common, view, viewSets, createLog,
                   selectVars, loadVars>>

RejectShaders ==
    /\ shaders.st = "pending"
    /\ shaders' = [st |-> "rejected", val |-> "none"]
    /\ UNCHANGED <<domVars, aaVars, common, view, viewSets, createLog,
                   selectVars, loadVars>>

(***************************************************************************)
(* Promise.all([common, shaders]).then(allShaders => createView(...))      *)
(***************************************************************************)
\* Promise.race in place of Promise.all
AllSettledAny(a, b) == a.st = "fulfilled" \/ b.st = "fulfilled"

\* Promise.all is fulfilled when every member is
AllFulfilled(a, b) == a.st = "fulfilled" /\ b.st = "fulfilled"

\* Promise.all is rejected as soon as one member is
AnyRejected(a, b) == a.st = "rejected" \/ b.st = "rejected"

\* createView(canvas, allShaders[0], allShaders[1])
CreateViewArgs(canvas, all) ==
    [canvas |-> canvas, common |-> all[1], shaders |-> all[2]]

\* a callback that runs once for each shader resource instead of once for both
ViewCallbackPerResource(returns) ==
    /\ view.st \in {"pending", "fulfilled"}
    /\ AllFulfilled(common, shaders)
    /\ Len(createLog) < 2
    /\ LET canvas == IF "pf-canvas" \in doc THEN "pf-canvas" ELSE "null"
           args == CreateViewArgs(canvas, <<common.val, shaders.val>>)
           made == Len(createLog) + 1
       IN  /\ createLog' = Append(createLog,
                                  args @@ [ret |-> IF returns THEN made ELSE 0])
           /\ view' = IF returns THEN [st |-> "fulfilled", val |-> made]
                      ELSE RejectedView
    /\ UNCHANGED <<domVars, aaVars, common, shaders, viewSets, selectVars, loadVars>>

\* the callback of line 52 runs: createView returns a new view, or throws
ViewCallback(returns) ==
    /\ view.st = "pending"
    /\ AllFulfilled(common, shaders)
    /\ LET canvas == IF "pf-canvas" \in doc THEN "pf-canvas" ELSE "null"
           args == CreateViewArgs(canvas, <<common.val, shaders.val>>)
           made == Len(createLog) + 1
       IN  /\ createLog' = Append(createLog,
                                  args @@ [ret |-> IF returns THEN made ELSE 0])
           /\ view' = IF returns THEN [st |-> "fulfilled", val |-> made]
                      ELSE RejectedView
    /\ UNCHANGED <<domVars, aaVars, common, shaders, viewSets, selectVars, loadVars>>

\* the rejection of Promise.all passes to the view promise
ViewRejected ==
    /\ view.st = "pending"
    /\ AnyRejected(common, shaders)
    /\ view' = RejectedView
    /\ UNCHANGED <<domVars, aaVars, common, shaders, viewSets, createLog,
                   selectVars, loadVars>>

(***************************************************************************)
(* The antialiasing selector.                                              *)
(***************************************************************************)
\* a change event: the user has selected option i
AAChange(i) ==
    /\ "aaLevelSelect.change" \in listeners
    /\ aaChanges < MaxAAChanges
    /\ i \in 0..(Len(aaOptions) - 1)
    /\ aaSelected' = i
    /\ aaChanges' = aaChanges + 1
    /\ UpdateAALevel(aaQueue)
    /\ UNCHANGED <<domVars, aaOptions, aaCalls, viewVars, selectVars, loadVars>>

\* the callbacks of the view promise run the newest first
AACallbackNewestFirst ==
    /\ view.st = "fulfilled"
    /\ aaQueue # <<>>
    /\ aaCalls' = Append(aaCalls, aaQueue[Len(aaQueue)] @@ [view |-> view.val])
    /\ aaQueue' = SubSeq(aaQueue, 1, Len(aaQueue) - 1)
    /\ UNCHANGED <<domVars, aaOptions, aaSelected, aaChanges, aaSelections,
                   lastAA, viewVars, selectVars, loadVars>>

\* view => view.setAntialiasingOptions(aaType, aaLevel), the oldest first
AACallback ==
    /\ view.st = "fulfilled"
    /\ aaQueue # <<>>
    /\ aaCalls' = Append(aaCalls, Head(aaQueue) @@ [view |-> view.val])
    /\ aaQueue' = Tail(aaQueue)
    /\ UNCHANGED <<domVars, aaOptions, aaSelected, aaChanges, aaSelections,
                   lastAA, viewVars, selectVars, loadVars>>

\* then() was given no rejection handler: a rejected view drops the callback
AACallbackDropped ==
    /\ view.st = "rejected"
    /\ aaQueue # <<>>
    /\ aaQueue' = Tail(aaQueue)
    /\ UNCHANGED <<domVars, aaOptions, aaSelected, aaChanges, aaSelections,
                   aaCalls, lastAA, viewVars, selectVars, loadVars>>

(***************************************************************************)
(* The preset select: a list of options and a selected index (from 0).     *)
(***************************************************************************)
\* node.insertBefore(x, ref), ref being the child at position pos (from 1)
InsertBefore(opts, pos, x) ==
    SubSeq(opts, 1, pos - 1) \o <<x>> \o SubSeq(opts, pos, Len(opts))

\* node.removeChild of the child at position pos (from 1)
RemoveAt(opts, pos) ==
    SubSeq(opts, 1, pos - 1) \o SubSeq(opts, pos + 1, Len(opts))

\* the selected option stays selected when an option is inserted before it
SelectedAfterInsert(sel, pos) == IF sel >= pos - 1 THEN sel + 1 ELSE sel

\* a drop-down whose selected option is removed selects its first option
SelectedAfterRemove(opts, sel, pos) ==
    IF sel = pos - 1 THEN (IF Len(opts) > 1 THEN 0 ELSE -1)
    ELSE IF sel > pos - 1 THEN sel - 1
    ELSE sel

\* document.getElementById: the first element in tree order with the id
FirstPlaceholder(opts) ==
    {j \in 1..Len(opts) :
        /\ opts[j].id = PlaceholderId
        /\ \A h \in 1..(j - 1) : opts[h].id # PlaceholderId}

BuiltinFileURI == "builtinFileURI"
DefaultFile == PresetNames[1]

\* window.fetch(this.builtinFileURI + file): the separator left out
NewFetchNoSlash(file) ==
    [kind |-> "fetch", name |-> file, url |-> <<BuiltinFileURI, file>>,
     st |-> "requested"]

\* window.fetch(`${this.builtinFileURI}/${file}`)
NewFetch(file) ==
    [kind |-> "fetch", name |-> file, url |-> <<BuiltinFileURI, "/", file>>,
     st |-> "requested"]

\* reader.readAsArrayBuffer(file)
NewRead(file) ==
    [kind |-> "read", name |-> file, url |-> <<>>, st |-> "reading"]

\* line 96 left out: the index stays where the insertion moved it
SelectedIndexNotRestored(old, shifted) == shifted

\* selectFileElement.selectedIndex = oldSelectedIndex
SelectedIndexRestored(old, shifted) == old

\* line 88: the "load-custom" option is selected and the file picker is bound
CustomBranch(i) ==
    fileOptions[i + 1].value = "load-custom" /\ filePickerElement = "element"

\* fileSelectionChanged(event): the user has selected option i
FileSelectionChanged(i) ==
    /\ "selectFile.click" \in listeners
    /\ selectEvents < MaxSelectEvents
    /\ i \in 0..(Len(fileOptions) - 1)
    /\ selectEvents' = selectEvents + 1
    /\ LET selectedOption == fileOptions[i + 1]
       IN  IF CustomBranch(i)
           THEN \* filePickerElement.click(); the placeholder goes before the
                \* selected option; selectedIndex is set back
                /\ fileOptions' = InsertBefore(fileOptions, i + 1, Placeholder)
                /\ fileSelected' =
                       SelectedIndexRestored(i, SelectedAfterInsert(i, i + 1))
                /\ lastSelect' = [ran |-> TRUE, index |-> i,
                                  value |-> selectedOption.value,
                                  before |-> fileOptions,
                                  opened |-> TRUE, fetched |-> FALSE]
                /\ UNCHANGED loads
           ELSE \* the first placeholder is removed; the file is fetched
                /\ Len(loads) < MaxLoads
                /\ LET found == FirstPlaceholder(fileOptions)
                   IN  IF found = {}
                       THEN /\ fileOptions' = fileOptions
                            /\ fileSelected' = i
                       ELSE LET j == CHOOSE x \in found : TRUE
                            IN  /\ fileOptions' = RemoveAt(fileOptions, j)
                                /\ fileSelected' =
                                       SelectedAfterRemove(fileOptions, i, j)
                /\ loads' = Append(loads, NewFetch(selectedOption.value))
                /\ lastSelect' = [ran |-> TRUE, index |-> i,
                                  value |-> selectedOption.value,
                                  before |-> fileOptions,
                                  opened |-> FALSE, fetched |-> TRUE]
    /\ UNCHANGED <<domVars, aaVars, viewVars, fileData, fileLoadedLog, lastLoadFile>>

(***************************************************************************)
(* File loads.                                                             *)
(***************************************************************************)
\* event.target.files: null on an input that is no file input, else the list
\* of the files selected, which may be empty
FileInputs == {[null |-> TRUE, list |-> <<>>],
               [null |-> FALSE, list |-> <<>>],
               [null |-> FALSE, list |-> <<"local-a">>],
               [null |-> FALSE, list |-> <<"local-a", "local-b">>]}

\* expectNotNull(value, message) throws message when value is null
ExpectNotNullThrows(files) == files.null

\* readAsArrayBuffer throws a TypeError when its argument is no Blob
\* (files[0] of an empty list is undefined)
ReadThrows(files) == files.list = <<>>

FilesTag(files) ==
    IF files.null THEN "null" ELSE IF files.list = <<>> THEN "empty" ELSE "some"

\* loadFile(event): a change event of the file picker
LoadFile(files) ==
    /\ "filePicker.change" \in listeners
    /\ IF ExpectNotNullThrows(files)
       THEN /\ lastLoadFile' = [ran |-> TRUE, files |-> FilesTag(files),
                                error |-> "No file selected!", started |-> FALSE]
            /\ UNCHANGED loads
       ELSE IF ReadThrows(files)
       THEN /\ lastLoadFile' = [ran |-> TRUE, files |-> FilesTag(files),
                                error |-> "TypeError", started |-> FALSE]
            /\ UNCHANGED loads
       ELSE /\ Len(loads) < MaxLoads
            /\ lastLoadFile' = [ran |-> TRUE, files |-> FilesTag(files),
                                error |-> "", started |-> TRUE]
            /\ loads' = Append(loads, NewRead(files.list[1]))
    /\ UNCHANGED <<domVars, aaVars, viewVars, selectVars, fileData, fileLoadedLog>>

\* loadInitialFile(), called by the subclass
LoadInitialFile ==
    /\ Len(loads) < MaxLoads
    /\ loads' = Append(loads, NewFetch(DefaultFile))
    /\ UNCHANGED <<domVars, aaVars, viewVars, selectVars, fileData,
                   fileLoadedLog, lastLoadFile>>

\* this.fileLoaded() called before this.fileData = data
SignalBeforeStore(k, data) ==
    /\ fileData' = data
    /\ fileLoadedLog' = Append(fileLoadedLog, [load |-> k, data |-> fileData])

\* this.fileData = data; this.fileLoaded(), with no other job in between
StoreAndSignal(k, data) ==
    /\ fileData' = data
    /\ fileLoadedLog' = Append(fileLoadedLog, [load |-> k, data |-> fileData'])

BytesOf(k) == [kind |-> "bytes", of |-> k]
NullData == [kind |-> "null", of |-> 0]

\* the response arrives: response => response.arrayBuffer()
FetchResponse(k) ==
    /\ k \in 1..Len(loads)
    /\ loads[k].kind = "fetch" /\ loads[k].st = "requested"
    /\ loads' = [loads EXCEPT ![k].st = "body"]
    /\ UNCHANGED <<domVars, aaVars, viewVars, selectVars, fileData,
                   fileLoadedLog, lastLoadFile>>

\* fetch rejects: no callback of the chain runs
FetchNetworkError(k) ==
    /\ k \in 1..Len(loads)
    /\ loads[k].kind = "fetch" /\ loads[k].st = "requested"
    /\ loads' = [loads EXCEPT ![k].st = "failed"]
    /\ UNCHANGED <<domVars, aaVars, viewVars, selectVars, fileData,
                   fileLoadedLog, lastLoadFile>>

\* arrayBuffer() resolves: data => { fileData = data; fileLoaded() }
FetchBody(k) ==
    /\ k \in 1..Len(loads)
    /\ loads[k].kind = "fetch" /\ loads[k].st = "body"
    /\ loads' = [loads EXCEPT ![k].st = "done"]
    /\ StoreAndSignal(k, BytesOf(k))
    /\ UNCHANGED <<domVars, aaVars, viewVars, selectVars, lastLoadFile>>

\* arrayBuffer() rejects: the last callback does not run
FetchBodyError(k) ==
    /\ k \in 1..Len(loads)
    /\ loads[k].kind = "fetch" /\ loads[k].st = "body"
    /\ loads' = [loads EXCEPT ![k].st = "failed"]
    /\ UNCHANGED <<domVars, aaVars, viewVars, selectVars, fileData,
                   fileLoadedLog, lastLoadFile>>

\* reader.result when loadend fires: the bytes, or null after a failed read
ReaderResult(k, ok) == IF ok THEN BytesOf(k) ELSE NullData

\* the reader's loadend event, fired after a read that succeeded or failed
ReadLoadEnd(k, ok) ==
    /\ k \in 1..Len(loads)
    /\ loads[k].kind = "read" /\ loads[k].st = "reading"
    /\ loads' = [loads EXCEPT ![k].st = IF ok THEN "done" ELSE "failed"]
    /\ StoreAndSignal(k, ReaderResult(k, ok))
    /\ UNCHANGED <<domVars, aaVars, viewVars, selectVars, lastLoadFile>>

(***************************************************************************)
(* The settings panel.                                                     *)
(***************************************************************************)
\* a click handler that reads this.settingsCard throws when getElementById
\* found no panel
PanelMissing == "pf-settings" \notin doc

\* classList.toggle(cls, true): the class is only ever added
ToggleForced(classes, cls) == classes \cup {cls}

\* classList.toggle(cls)
Toggle(classes, cls) ==
    IF cls \in classes THEN classes \ {cls} ELSE classes \cup {cls}

\* classList.add(cls)
Add(classes, cls) == classes \cup {cls}

\* what a click has done to the panel
ClickEntry(button) ==
    [button |-> button, threw |-> PanelMissing,
     before |-> settingsClasses, after |-> settingsClasses']

\* settingsCard.classList.toggle('pf-invisible')
SettingsButtonClick ==
    /\ "settingsButton.click" \in listeners
    /\ Len(clickLog) < MaxClicks
    /\ settingsClasses' = IF PanelMissing THEN settingsClasses
                          ELSE Toggle(settingsClasses, "pf-invisible")
    /\ clickLog' = Append(clickLog, ClickEntry("settings"))
    /\ UNCHANGED <<doc, pc, listeners, filePickerElement, aaVars, viewVars,
                   selectVars, loadVars>>

\* settingsCard.classList.add('pf-invisible')
SettingsCloseButtonClick ==
    /\ "settingsCloseButton.click" \in listeners
    /\ Len(clickLog) < MaxClicks
    /\ settingsClasses' = IF PanelMissing THEN settingsClasses
                          ELSE Add(settingsClasses, "pf-invisible")
    /\ clickLog' = Append(clickLog, ClickEntry("close"))
    /\ UNCHANGED <<doc, pc, listeners, filePickerElement, aaVars, viewVars,
                   selectVars, loadVars>>

(***************************************************************************)
(* Initial states: the controller is constructed, start() has not run.     *)
(***************************************************************************)
AllIds == RequiredIds \cup OptionalIds

\* the preset select of the markup, "load-custom" at position pos
FileMarkup(pos) ==
    InsertBefore([j \in 1..Len(PresetNames) |-> PresetOption(PresetNames[j])],
                 pos, LoadCustom)

InitController ==
    /\ pc = "init"
    /\ listeners = {}
    /\ filePickerElement = "unset"
    /\ clickLog = <<>>
    /\ aaChanges = 0
    /\ aaSelections = <<>>
    /\ common = Unset /\ shaders = Unset /\ view = UnsetView
    /\ viewSets = 0
    /\ createLog = <<>>
    /\ aaQueue = <<>> /\ aaCalls = <<>>
    /\ lastAA = NoAA
    /\ fileSelected = 0
    /\ selectEvents = 0
    /\ lastSelect = NoSelect
    /\ loads = <<>>
    /\ fileData = NoData
    /\ fileLoadedLog = <<>>
    /\ lastLoadFile = NoLoadFile

\* any option value beside one of the demo's own, either one selected
InitAA ==
    /\ InitController
    /\ settingsClasses = {"card", "pf-invisible"}
    /\ doc = AllIds
    /\ aaOptions \in {<<w, g>> : w \in Strings, g \in SampleAAOptions}
    /\ aaSelected \in {0, 1}
    /\ fileOptions = FileMarkup(Len(PresetNames) + 1)

\* the demo's antialiasing options; the canvas present or not
InitView ==
    /\ InitController
    /\ settingsClasses = {"card", "pf-invisible"}
    /\ doc \in {AllIds, AllIds \ {"pf-canvas"}}
    /\ aaOptions = <<<<"n", "o", "n", "e">>, <<"e", "c", "a", "a", "-", "4">>>>
    /\ aaSelected = 0
    /\ fileOptions = FileMarkup(Len(PresetNames) + 1)

\* the optional elements present or not; "load-custom" anywhere in the select
InitFile ==
    /\ InitController
    /\ settingsClasses = {"card", "pf-invisible"}
    /\ doc \in {RequiredIds \cup s : s \in SUBSET OptionalIds}
    /\ aaOptions = <<<<"n", "o", "n", "e">>, <<"e", "c", "a", "a", "-", "4">>>>
    /\ aaSelected = 0
    /\ fileOptions \in {FileMarkup(pos) : pos \in 1..(Len(PresetNames) + 1)}

(***************************************************************************)
(* Specifications.                                                         *)
(***************************************************************************)
NextShaders ==
    \/ \E v \in CommonValues : ResolveCommon(v)
    \/ RejectCommon
    \/ \E v \in ShaderValues : ResolveShaders(v)
    \/ RejectShaders

NextViewPromise ==
    \/ \E returns \in BOOLEAN : ViewCallback(returns)
    \/ ViewRejected

NextAASelect ==
    \/ \E i \in 0..1 : AAChange(i)
    \/ AACallback
    \/ AACallbackDropped

NextSelect ==
    \E i \in 0..(Len(PresetNames) + MaxSelectEvents) : FileSelectionChanged(i)

NextLoads ==
    \/ \E files \in FileInputs : LoadFile(files)
    \/ LoadInitialFile
    \/ \E k \in 1..MaxLoads : FetchResponse(k)
    \/ \E k \in 1..MaxLoads : FetchNetworkError(k)
    \/ \E k \in 1..MaxLoads : FetchBody(k)
    \/ \E k \in 1..MaxLoads : FetchBodyError(k)
    \/ \E k \in 1..MaxLoads, ok \in BOOLEAN : ReadLoadEnd(k, ok)

\* start-up, the view and the antialiasing selector
NextAA == Start \/ NextShaders \/ NextViewPromise \/ NextAASelect

\* start-up, the preset select and the file loads
NextFile == Start \/ NextSelect \/ NextLoads

\* file loads that run to completion
NextLoadsDone ==
    \/ LoadFile([null |-> FALSE, list |-> <<"local-a">>])
    \/ LoadInitialFile
    \/ \E k \in 1..MaxLoads : FetchResponse(k)
    \/ \E k \in 1..MaxLoads : FetchBody(k)
    \/ \E k \in 1..MaxLoads : ReadLoadEnd(k, TRUE)

\* start-up, the view, the antialiasing selector and the file loads
NextView == Start \/ NextShaders \/ NextViewPromise \/ NextAASelect \/ NextLoadsDone

SpecAA == InitAA /\ [][NextAA]_vars

SpecFile == InitFile /\ [][NextFile]_vars

SpecView == InitView /\ [][NextView]_vars

\* the event loop runs every job that is ready
FairSpecView ==
    /\ SpecView
    /\ WF_vars(\E returns \in BOOLEAN : ViewCallback(returns))
    /\ WF_vars(ViewRejected)

\* any markup: each element present or not, the panel hidden or shown
InitDoc ==
    /\ InitController
    /\ settingsClasses \in {{"card"}, {"card", "pf-invisible"}}
    /\ doc \in SUBSET AllIds
    /\ aaOptions = <<<<"n", "o", "n", "e">>, <<"e", "c", "a", "a", "-", "4">>>>
    /\ aaSelected = 0
    /\ fileOptions = FileMarkup(Len(PresetNames) + 1)

\* start-up and the two settings buttons
NextDoc == Start \/ SettingsButtonClick \/ SettingsCloseButtonClick

SpecDoc == InitDoc /\ [][NextDoc]_vars

(***************************************************************************)
(* What the option format <strategy-name>[-<integer-level>] says, stated   *)
(* without the matcher.                                                    *)
(***************************************************************************)
\* a name alone: one or more lowercase letters and hyphens
IsPlainName(s) == Len(s) >= 1 /\ \A j \in 1..Len(s) : s[j] \in NameChars

\* the lengths k of a name s[1..k] that a hyphen and only digits follow
SplitPoints(s) ==
    {k \in 1..(Len(s) - 2) :
        /\ \A j \in 1..k : s[j] \in NameChars
        /\ s[k + 1] = "-"
        /\ \A j \in (k + 2)..Len(s) : s[j] \in DigitChars}

IsNameLevel(s) == SplitPoints(s) # {}

Malformed(s) == ~IsPlainName(s) /\ ~IsNameLevel(s)

RECURSIVE Pow10(_)
Pow10(n) == IF n = 0 THEN 1 ELSE 10 * Pow10(n - 1)

RECURSIVE SumTo(_, _)
\* the number a digit string denotes in base ten
SumTo(d, n) ==
    IF n = 0 THEN 0
    ELSE SumTo(d, n - 1) + DigitVal(d[n]) * Pow10(Len(d) - n)

DecimalValue(d) == SumTo(d, Len(d))

\* every callback registered and every call made, each with its option value
AAForwarded == {aaQueue[j] : j \in 1..Len(aaQueue)}
                   \cup {[type |-> aaCalls[j].type, level |-> aaCalls[j].level,
                          from |-> aaCalls[j].from] : j \in 1..Len(aaCalls)}

AACallsMade == {[type |-> aaCalls[j].type, level |-> aaCalls[j].level,
                 from |-> aaCalls[j].from] : j \in 1..Len(aaCalls)}

(***************************************************************************)
(* C1: an option value that is a name alone (no numeric suffix) reaches    *)
(* the view as the pair (that name, 1).                                    *)
(***************************************************************************)
C1_PlainNameLevelOne ==
    \A e \in AACallsMade :
        IsPlainName(e.from) => e.type = e.from /\ e.level = Int1(1)

(***************************************************************************)
(* C2: an option value <name>-<digits> is parsed without error and reaches *)
(* the view as exactly the pair (<name>, the integer the digits denote).   *)
(***************************************************************************)
C2_NameLevelPair ==
    /\ lastAA.ran /\ IsNameLevel(lastAA.from) =>
           /\ ~lastAA.threw
           /\ \A k \in SplitPoints(lastAA.from) :
                  /\ lastAA.type = SubSeq(lastAA.from, 1, k)
                  /\ lastAA.level =
                         Int1(DecimalValue(SubSeq(lastAA.from, k + 2,
                                                  Len(lastAA.from))))
           \* once the view exists and its callbacks have run, the latest
           \* call it received is this selection's
           /\ (view.st = "fulfilled" /\ aaQueue = <<>>) =>
                  /\ aaCalls # <<>>
                  /\ aaCalls[Len(aaCalls)].from = lastAA.from
                  /\ aaCalls[Len(aaCalls)].type = lastAA.type
                  /\ aaCalls[Len(aaCalls)].level = lastAA.level
    /\ \A e \in AAForwarded :
           \A k \in SplitPoints(e.from) :
               /\ e.type = SubSeq(e.from, 1, k)
               /\ e.level = Int1(DecimalValue(SubSeq(e.from, k + 2, Len(e.from))))

\* the view has been called for a drawn value whose name itself holds a hyphen
C2_Witness ==
    \E e \in AACallsMade :
        /\ e.from = <<"-", "-", "4">>
        /\ e.type = <<"-">>
        /\ e.level = Int1(4)

(***************************************************************************)
(* C3: an option value that does not match the pattern makes updateAALevel *)
(* throw, in start() and in a change event alike, and no callback is       *)
(* registered and no call made on the view for it.                         *)
(***************************************************************************)
C3_MalformedFails ==
    /\ lastAA.ran /\ Malformed(lastAA.from) => lastAA.threw
    /\ \A e \in AAForwarded : ~Malformed(e.from)
    /\ (pc # "init" /\ aaChanges = 0 /\ Malformed(aaOptions[aaSelected + 1])) =>
           /\ pc = "threw"
           /\ aaQueue = <<>> /\ aaCalls = <<>>

\* a change event selected a malformed value after the view had taken its
\* first setting, and nothing more reached the view
C3_Witness ==
    /\ lastAA.ran /\ Malformed(lastAA.from) /\ lastAA.threw
    /\ aaChanges = 1
    /\ view.st = "fulfilled"
    /\ Len(aaCalls) = 1 /\ aaQueue = <<>>

(***************************************************************************)
(* C4: the view promise is fulfilled only when both shader resources are,  *)
(* and its value is what createView returned when called with the canvas   *)
(* and the two resolved values.                                            *)
(***************************************************************************)
C4_ViewAfterBothShaders ==
    /\ createLog # <<>> => AllFulfilled(common, shaders)
    /\ view.st = "fulfilled" =>
           /\ common.st = "fulfilled" /\ shaders.st = "fulfilled"
           /\ createLog # <<>>
           /\ LET call == createLog[Len(createLog)]
              IN  /\ call.ret = view.val
                  /\ call.canvas = (IF "pf-canvas" \in doc THEN "pf-canvas"
                                    ELSE "null")
                  /\ call.common = common.val
                  /\ call.shaders = shaders.val

\* the view exists, made from the second common source and the first
\* per-program sources
C4_Witness ==
    /\ view.st = "fulfilled"
    /\ common = [st |-> "fulfilled", val |-> "common-b"]
    /\ shaders = [st |-> "fulfilled", val |-> "shaders-a"]
    /\ Len(createLog) = 1

(***************************************************************************)
(* C5: after start() this.view is assigned once and never again;           *)
(* createView is called at most once, only when both shader resources have *)
(* resolved, and then it is called; a settled view promise never changes,  *)
(* whatever file loads and antialiasing changes happen.                    *)
(***************************************************************************)
C5_ViewSetOnce ==
    /\ [](/\ viewSets = (IF pc = "init" THEN 0 ELSE 1)
          /\ Len(createLog) <= 1
          /\ (createLog # <<>> => AllFulfilled(common, shaders)))
    /\ [][view.st \in {"fulfilled", "rejected"} => view' = view]_vars
    /\ (AllFulfilled(common, shaders) ~> Len(createLog) = 1)

\* the view was created once, and a file load and an antialiasing change
\* have happened since start()
C5_Witness ==
    /\ viewSets = 1
    /\ Len(createLog) = 1
    /\ view.st = "fulfilled"
    /\ aaChanges >= 1
    /\ fileLoadedLog # <<>>

(***************************************************************************)
(* The preset select and the file loads.                                   *)
(***************************************************************************)
PlaceholderCount(opts) ==
    Cardinality({j \in 1..Len(opts) : opts[j].id = PlaceholderId})

(***************************************************************************)
(* C6: the preset select never holds more than one "Custom" placeholder.   *)
(***************************************************************************)
C6_AtMostOnePlaceholder == PlaceholderCount(fileOptions) <= 1

(***************************************************************************)
(* C7: after an event whose selected option is not "load-custom" the       *)
(* select holds no placeholder.                                            *)
(***************************************************************************)
C7_NoPlaceholderAfterBuiltin ==
    (lastSelect.ran /\ lastSelect.value # "load-custom") =>
        PlaceholderCount(fileOptions) = 0

(***************************************************************************)
(* C8: an event with "load-custom" selected and the file picker bound      *)
(* opens the picker, puts one placeholder right before the "load-custom"   *)
(* option and changes nothing else in the select, keeps selectedIndex at   *)
(* the selection's index, and issues no fetch.                             *)
(***************************************************************************)
C8_CustomSelection ==
    [][(/\ selectEvents' = selectEvents + 1
        /\ lastSelect'.value = "load-custom"
        /\ filePickerElement = "element") =>
           LET i == lastSelect'.index
           IN  /\ lastSelect'.opened
               /\ loads' = loads
               /\ fileSelected' = i
               /\ Len(fileOptions') = Len(fileOptions) + 1
               /\ PlaceholderCount(fileOptions') = PlaceholderCount(fileOptions) + 1
               /\ fileOptions'[i + 1] = Placeholder
               /\ fileOptions'[i + 2] = LoadCustom
               /\ \A j \in 1..i : fileOptions'[j] = fileOptions[j]
               /\ \A j \in (i + 1)..Len(fileOptions) :
                      fileOptions'[j + 1] = fileOptions[j]]_vars

\* "load-custom" was selected in a select that held no placeholder, the
\* picker was opened, and the placeholder is now the selected option
C8_Witness ==
    /\ lastSelect.ran /\ lastSelect.value = "load-custom" /\ lastSelect.opened
    /\ PlaceholderCount(lastSelect.before) = 0
    /\ PlaceholderCount(fileOptions) = 1
    /\ fileSelected = lastSelect.index
    /\ fileOptions[fileSelected + 1] = Placeholder

(***************************************************************************)
(* C9: loadFile with no file selected fails with "No file selected!" and   *)
(* starts no read.                                                         *)
(***************************************************************************)
C9_NoFileSelectedError ==
    (lastLoadFile.ran /\ lastLoadFile.files \in {"null", "empty"}) =>
        /\ lastLoadFile.error = "No file selected!"
        /\ ~lastLoadFile.started

(***************************************************************************)
(* C10: fileLoaded() is called only for a load whose bytes arrived; a load *)
(* that fails calls nothing and leaves fileData as it was.                 *)
(***************************************************************************)
C10_NoSignalOnFailure ==
    /\ \A j \in 1..Len(fileLoadedLog) :
           /\ loads[fileLoadedLog[j].load].st = "done"
           /\ fileLoadedLog[j].data.kind = "bytes"
    /\ fileData.kind # "null"

(***************************************************************************)
(* C11: a load that completes with its bytes calls fileLoaded() exactly    *)
(* once, and fileData at that call is the bytes of that load.              *)
(***************************************************************************)
SignalsOf(k) == {j \in 1..Len(fileLoadedLog) : fileLoadedLog[j].load = k}

C11_OneSignalPerLoad ==
    /\ \A k \in 1..Len(loads) :
           loads[k].st = "done" =>
               /\ Cardinality(SignalsOf(k)) = 1
               /\ \A j \in SignalsOf(k) : fileLoadedLog[j].data = BytesOf(k)
    /\ \A k \in 1..Len(loads) :
           loads[k].st \in {"requested", "body", "reading"} => SignalsOf(k) = {}
    /\ \A j \in 1..Len(fileLoadedLog) : fileLoadedLog[j].load \in 1..Len(loads)

\* a fetch and a local read have both completed, the later-initiated first
C11_Witness ==
    /\ Len(loads) = 2
    /\ loads[1].st = "done" /\ loads[2].st = "done"
    /\ loads[1].kind # loads[2].kind
    /\ Len(fileLoadedLog) = 2
    /\ fileLoadedLog[1] = [load |-> 2, data |-> BytesOf(2)]
    /\ fileLoadedLog[2] = [load |-> 1, data |-> BytesOf(1)]

(***************************************************************************)
(* C12: overlapping loads, the last one to complete wins.                  *)
(***************************************************************************)
AllSettled == \A k \in 1..Len(loads) : loads[k].st \in {"done", "failed"}

\* the positions of the log at which a load completed successfully
Completions == {j \in 1..Len(fileLoadedLog) : loads[fileLoadedLog[j].load].st = "done"}

\* the load that completed last
LastCompleted ==
    fileLoadedLog[CHOOSE j \in Completions : \A x \in Completions : x <= j].load

\* C12: once every load has settled, nothing having been cancelled, fileData
\* holds the bytes of the load that completed last, whichever was started
\* last.
C12_LastCompletedWins ==
    (AllSettled /\ Completions # {}) => fileData = BytesOf(LastCompleted)

(***************************************************************************)
(* C13: start() fails fast when a required element is missing.             *)
(***************************************************************************)
\* C13: once start() has run on a document that lacks one of pf-canvas,
\* pf-settings, pf-settings-button, pf-settings-close-button and
\* pf-aa-level-select, it has thrown instead of completing.
C13_FailFast ==
    (pc # "init" /\ ~(RequiredIds \subseteq doc)) => pc = "threw"

(***************************************************************************)
(* C14: a missing optional element is skipped.                             *)
(***************************************************************************)
\* C14: once start() has run on a document that has every required element
\* and lacks pf-file-select, pf-select-file or both, it has completed
\* without an error; the absent element has no listener and its handler
\* never runs; the view promise is set, the listener of the antialiasing
\* select is registered and the initial antialiasing setting has been read
\* and queued for the view.
C14_OptionalAbsent ==
    (pc # "init" /\ RequiredIds \subseteq doc /\ OptionalIds \ doc # {}) =>
        /\ pc = "done"
        /\ "pf-file-select" \notin doc =>
               /\ "filePicker.change" \notin listeners
               /\ filePickerElement = "null"
               /\ ~lastLoadFile.ran
        /\ "pf-select-file" \notin doc =>
               /\ "selectFile.click" \notin listeners
               /\ ~lastSelect.ran
        /\ "pf-file-select" \in doc => "filePicker.change" \in listeners
        /\ "pf-select-file" \in doc => "selectFile.click" \in listeners
        /\ viewSets = 1 /\ view.st # "unset"
        /\ "aaLevelSelect.change" \in listeners
        /\ lastAA.ran /\ ~lastAA.threw
        /\ aaSelections = <<aaOptions[aaSelected + 1]>>
        /\ Len(aaQueue) = 1 /\ aaQueue[1].from = aaOptions[aaSelected + 1]

\* start() has completed on a document with neither optional element
C14_Witness ==
    /\ pc = "done"
    /\ doc = RequiredIds
    /\ listeners = {"settingsButton.click", "settingsCloseButton.click",
                    "aaLevelSelect.change"}
    /\ view = PendingView

(***************************************************************************)
(* C15: the request of a built-in file.                                    *)
(***************************************************************************)
\* the request fetchFile(name) issues
RequestFor(name) ==
    [kind |-> "fetch", name |-> name, url |-> <<BuiltinFileURI, "/", name>>,
     st |-> "requested"]

\* this step has issued exactly one request, the one for name
IssuesOne(name) ==
    /\ Len(loads') = Len(loads) + 1
    /\ \A k \in 1..Len(loads) : loads'[k] = loads[k]
    /\ loads'[Len(loads')] = RequestFor(name)

\* this step has started a load
StartsLoad == Len(loads') > Len(loads)

\* C15: fetchFile(name) issues exactly one GET, to builtinFileURI "/" name:
\* loadInitialFile() issues the one for defaultFile, a selection event that
\* takes the built-in branch issues the one for the value of the option
\* that was selected, and a selection event that takes the custom branch
\* issues none.  No later step changes the name or the URL of a request.
C15_FetchRequest ==
    [][ /\ Len(loads') >= Len(loads)
        /\ \A k \in 1..Len(loads) :
               loads'[k].url = loads[k].url /\ loads'[k].name = loads[k].name
        /\ selectEvents' # selectEvents =>
               IF lastSelect'.fetched
               THEN IssuesOne(fileOptions[lastSelect'.index + 1].value)
               ELSE loads' = loads
        /\ (selectEvents' = selectEvents /\ StartsLoad
               /\ loads'[Len(loads')].kind = "fetch") =>
               IssuesOne(DefaultFile)
        /\ (StartsLoad /\ loads'[Len(loads')].kind = "read") =>
               /\ Len(loads') = Len(loads) + 1
               /\ loads'[Len(loads')].url = <<>>
      ]_vars

\* loadInitialFile() and one built-in selection event have each issued
\* their request
C15_Witness ==
    /\ selectEvents = 1 /\ lastSelect.fetched
    /\ Len(loads) = 2
    /\ \E k \in 1..2 :
           /\ loads[k].kind = "fetch" /\ loads[k].name = DefaultFile
           /\ loads[k].url = <<BuiltinFileURI, "/", DefaultFile>>
           /\ loads[3 - k].kind = "fetch" /\ loads[3 - k].name = "preset-b"
           /\ loads[3 - k].name = lastSelect.value
           /\ loads[3 - k].url = <<BuiltinFileURI, "/", "preset-b">>

(***************************************************************************)
(* C16: the antialiasing selections reach the view in order.               *)
(***************************************************************************)
WellFormedAA(s) == ~Malformed(s)

\* the well-formed selections made so far, the one of start() first
WellFormedSelections == SelectSeq(aaSelections, WellFormedAA)

\* the option values a sequence of calls or of pending calls came from
Froms(q) == [j \in 1..Len(q) |-> q[j].from]

PresetNameSet == {PresetNames[j] : j \in 1..Len(PresetNames)}

\* C17: whatever the selection events and with the file picker present or
\* not, every built-in fetch names a preset: none is for "load-custom" and
\* none for the value of the "Custom" placeholder.
C17_FetchesNamePresets ==
    \A k \in 1..Len(loads) :
        loads[k].kind = "fetch" =>
            /\ loads[k].name \notin {LoadCustom.value, Placeholder.value}
            /\ loads[k].name \in PresetNameSet

(***************************************************************************)
(* C18: the two settings buttons.                                          *)
(***************************************************************************)
Invisible(classes) == "pf-invisible" \in classes

OtherClasses(classes) == classes \ {"pf-invisible"}

\* C18: in any sequence of clicks on the two buttons of a document that has
\* the panel, the panel carries pf-invisible right after every click on the
\* close button, whatever it carried before; every click on the settings
\* button flips the presence of pf-invisible, so that two settings clicks in
\* a row leave the panel as it was; no click touches another class.
C18_SettingsClicks ==
    /\ \A j \in 1..Len(clickLog) :
           LET e == clickLog[j]
           IN  /\ e.threw = PanelMissing
               /\ j > 1 => e.before = clickLog[j - 1].after
               /\ OtherClasses(e.after) = OtherClasses(e.before)
               /\ (~e.threw /\ e.button = "close") => Invisible(e.after)
               /\ (~e.threw /\ e.button = "settings") =>
                      Invisible(e.after) = ~Invisible(e.before)
    /\ \A j \in 1..(Len(clickLog) - 1) :
           (/\ ~clickLog[j].threw
            /\ clickLog[j].button = "settings"
            /\ clickLog[j + 1].button = "settings") =>
               clickLog[j + 1].after = clickLog[j].before
    /\ \A j \in 1..(Len(clickLog) - 1) :
           (/\ ~clickLog[j].threw
            /\ clickLog[j].button = "close"
            /\ clickLog[j + 1].button = "close") =>
               clickLog[j + 1].after = clickLog[j].after
    /\ clickLog # <<>> => settingsClasses = clickLog[Len(clickLog)].after

\* a close click on a hidden panel, then two settings clicks in a row
C18_Witness ==
    /\ ~PanelMissing
    /\ Len(clickLog) = 3
    /\ clickLog[1].button = "close" /\ Invisible(clickLog[1].before)
    /\ clickLog[2].button = "settings" /\ ~Invisible(clickLog[2].after)
    /\ clickLog[3].button = "settings"
    /\ Invisible(settingsClasses)

====
